---------------------------- MODULE Spec2Model ----------------------------
(***************************************************************************)
(* A model of the SNTP client of src/ntp.go: the fixed-point time codec,   *)
(* the four-timestamp arithmetic, the response validator and the query /   *)
(* response exchange (getTime, QueryWithOptions).                          *)
(*                                                                         *)
(* Go's uint64 / int64 values are kept at their full width. TLC's integers *)
(* are 32 bits wide, so a 64-bit word is a sequence of four 16-bit limbs,  *)
(* least significant limb first, and the arithmetic below is the machine   *)
(* arithmetic on such words (wrapping modulo 2^64).                        *)
(***************************************************************************)
EXTENDS Integers, Sequences, FiniteSets, TLC

(***************************************************************************)
(* 64-bit machine words                                                    *)
(***************************************************************************)
Base == 2^16
HalfBase == 2^15

Zero64 == <<0, 0, 0, 0>>
One64 == <<1, 0, 0, 0>>

\* The word of a natural number below 2^31.
FromInt(n) == <<n % Base, n \div Base, 0, 0>>

\* The word sec * 2^32 + frac, for sec and frac below 2^31.
FixedPoint(sec, frac) == <<frac % Base, frac \div Base, sec % Base, sec \div Base>>

RECURSIVE AddLimbs(_, _, _)
AddLimbs(a, b, c) ==
    IF a = <<>> THEN <<>>
    ELSE LET s == Head(a) + Head(b) + c
         IN  <<s % Base>> \o AddLimbs(Tail(a), Tail(b), s \div Base)

RECURSIVE SubLimbs(_, _, _)
SubLimbs(a, b, c) ==
    IF a = <<>> THEN <<>>
    ELSE LET d == Head(a) - Head(b) - c
         IN  IF d < 0 THEN <<d + Base>> \o SubLimbs(Tail(a), Tail(b), 1)
                      ELSE <<d>> \o SubLimbs(Tail(a), Tail(b), 0)

\* uint64 a + b, a - b, -a: wrapping modulo 2^64.
Add64(a, b) == AddLimbs(a, b, 0)
Sub64(a, b) == SubLimbs(a, b, 0)
Neg64(a) == Sub64(Zero64, a)

\* Unsigned comparison.
RECURSIVE Lt64(_, _)
Lt64(a, b) ==
    IF a = <<>> THEN FALSE
    ELSE IF Tail(a) # Tail(b) THEN Lt64(Tail(a), Tail(b))
    ELSE Head(a) < Head(b)

Le64(a, b) == ~Lt64(b, a)

\* uint64 a * m for an integer 0 <= m < 2^11, wrapping.
RECURSIVE MulLimbs(_, _, _)
MulLimbs(a, m, c) ==
    IF a = <<>> THEN <<>>
    ELSE LET p == Head(a) * m + c
         IN  <<p % Base>> \o MulLimbs(Tail(a), m, p \div Base)

\* uint64 a * m for an integer 0 <= m < 2^31, wrapping: m is taken in three
\* digits of 10 bits, so that no partial product leaves TLC's integers.
MulInt64(a, m) ==
    LET m0 == m % 1024
        m1 == (m \div 1024) % 1024
        m2 == m \div (1024 * 1024)
        hi == Add64(MulLimbs(MulLimbs(a, m2, 0), 1024, 0), MulLimbs(a, m1, 0))
    IN  Add64(MulLimbs(hi, 1024, 0), MulLimbs(a, m0, 0))

\* Long division of one limb x (k bits left) into the running remainder r.
RECURSIVE DivLimb(_, _, _, _, _)
DivLimb(x, k, r, q, d) ==
    IF k = 0 THEN [q |-> q, r |-> r]
    ELSE LET r2 == 2 * r + ((x \div 2^(k-1)) % 2)
         IN  IF r2 >= d THEN DivLimb(x, k - 1, r2 - d, 2 * q + 1, d)
                        ELSE DivLimb(x, k - 1, r2, 2 * q, d)

\* uint64 a / d and a % d for an integer 0 < d <= 2^30.
RECURSIVE DivRem64(_, _)
DivRem64(a, d) ==
    IF a = <<>> THEN [q |-> <<>>, r |-> 0]
    ELSE LET hi == DivRem64(Tail(a), d)
             lo == DivLimb(Head(a), 16, hi.r, 0, d)
         IN  [q |-> <<lo.q>> \o hi.q, r |-> lo.r]

Shr32(a) == <<a[3], a[4], 0, 0>>
Shl32(a) == <<0, 0, a[1], a[2]>>
Low32(a) == <<a[1], a[2], 0, 0>>
Shr1(a) ==
    <<(a[1] \div 2) + ((a[2] % 2) * HalfBase),
      (a[2] \div 2) + ((a[3] % 2) * HalfBase),
      (a[3] \div 2) + ((a[4] % 2) * HalfBase),
      a[4] \div 2>>

\* int64: the same word read in two's complement.
IsNeg64(a) == a[4] >= HalfBase
SLt64(a, b) ==
    IF IsNeg64(a) # IsNeg64(b) THEN IsNeg64(a) ELSE Lt64(a, b)

\* Go's int64 a / 2: truncated toward zero.
SHalf64(a) == IF IsNeg64(a) THEN Neg64(Shr1(Neg64(a))) ELSE Shr1(a)

(***************************************************************************)
(* Package constants                                                       *)
(***************************************************************************)
nanoPerSec == 1000000000
maxStratum == 16
LeapNotInSync == 3
server == 4
client == 3
defaultNtpVersion == 4

\* time.Second, maxPollInterval and maxDispersion, in nanoseconds.
Second == FromInt(nanoPerSec)
maxPollInterval == MulInt64(FromInt(2^17), nanoPerSec)
maxDispersion == MulInt64(FromInt(16), nanoPerSec)

(***************************************************************************)
(* time.Time and time.Duration                                             *)
(*                                                                         *)
(* A time.Duration is an int64 count of nanoseconds. A time.Time is kept   *)
(* as the nanoseconds elapsed since ntpEra0 (1900-01-01), a word below     *)
(* 2^63: instants from 1900 up to 2192, for which t.Sub(ntpEra0) does not  *)
(* saturate. ntpEra1 is 2^32 seconds after ntpEra0.                        *)
(***************************************************************************)
ntpEra0 == Zero64
ntpEra1 == MulInt64(<<0, 0, 1, 0>>, nanoPerSec)

\* const t1970 = 0x83aa7e8000000000
t1970 == <<0, 0, 32384, 33706>>

RECURSIVE OrInt(_, _)
OrInt(x, y) ==
    IF x = 0 THEN y
    ELSE IF y = 0 THEN x
    ELSE (IF x % 2 = 1 \/ y % 2 = 1 THEN 1 ELSE 0) + 2 * OrInt(x \div 2, y \div 2)

Or64(a, b) == [i \in 1..4 |-> OrInt(a[i], b[i])]

(***************************************************************************)
(* Fixed-point time codec                                                  *)
(***************************************************************************)
\* func (t ntpTime) Duration() time.Duration
ntpTimeDuration(t) ==
    LET sec  == MulInt64(Shr32(t), nanoPerSec)
        frac == MulInt64(Low32(t), nanoPerSec)
        nsec == Shr32(frac)
    IN  IF frac[2] >= HalfBase THEN Add64(sec, Add64(nsec, One64))
                               ELSE Add64(sec, nsec)

\* A decoder that ignores the era rule: every raw value is read in era 0.
ntpTimeTimeNoEra(t) == Add64(ntpEra0, ntpTimeDuration(t))

\* func (t ntpTime) Time() time.Time
ntpTimeTime(t) ==
    IF Lt64(t, t1970) THEN Add64(ntpEra1, ntpTimeDuration(t))
                      ELSE Add64(ntpEra0, ntpTimeDuration(t))

\* func toNtpTime(t time.Time) ntpTime
toNtpTime(t) ==
    LET nsec0 == Sub64(t, ntpEra0)
        sec   == DivRem64(nsec0, nanoPerSec).q
        nsec  == Shl32(Sub64(nsec0, MulInt64(sec, nanoPerSec)))
        dr    == DivRem64(nsec, nanoPerSec)
        frac  == IF dr.r >= nanoPerSec \div 2 THEN Add64(dr.q, One64) ELSE dr.q
    IN  Or64(Shl32(sec), frac)

(***************************************************************************)
(* Timestamp arithmetic                                                    *)
(***************************************************************************)
\* The tail of offset: an int64 count of 2^-32 s as a signed time.Duration.
SignedDuration(x) ==
    IF IsNeg64(x) THEN Neg64(ntpTimeDuration(Neg64(x)))
                  ELSE ntpTimeDuration(x)

\* A round trip that forgets the time the server held the query.
rttNoServerTime(org, rec, xmt, dst) ==
    LET r == Sub64(dst, org)
    IN  IF IsNeg64(r) THEN ntpTimeDuration(Zero64) ELSE ntpTimeDuration(r)

\* func rtt(org, rec, xmt, dst ntpTime) time.Duration
rtt(org, rec, xmt, dst) ==
    LET a == Sub64(dst, org)
        b == Sub64(xmt, rec)
        r == Sub64(a, b)
    IN  IF IsNeg64(r) THEN ntpTimeDuration(Zero64) ELSE ntpTimeDuration(r)

\* An offset that subtracts the two differences the other way round.
offsetSwapped(org, rec, xmt, dst) ==
    LET a == Sub64(rec, org)
        b == Sub64(xmt, dst)
    IN  SignedDuration(Add64(a, SHalf64(Sub64(a, b))))

\* func offset(org, rec, xmt, dst ntpTime) time.Duration
offset(org, rec, xmt, dst) ==
    LET a == Sub64(rec, org)
        b == Sub64(xmt, dst)
    IN  SignedDuration(Add64(a, SHalf64(Sub64(b, a))))

\* func minError(org, rec, xmt, dst ntpTime) time.Duration
minError(org, rec, xmt, dst) ==
    LET error0 == IF Le64(rec, org) THEN Sub64(org, rec) ELSE Zero64
        error1 == IF Le64(dst, xmt) THEN Sub64(xmt, dst) ELSE Zero64
    IN  IF Lt64(error1, error0) THEN ntpTimeDuration(error0)
                                ELSE ntpTimeDuration(error1)

\* func rootDistance(rtt, rootDelay, rootDisp time.Duration) time.Duration
rootDistance(r, rootDelay, rootDisp) ==
    Add64(SHalf64(Add64(r, rootDelay)), rootDisp)

(***************************************************************************)
(* Response validator                                                      *)
(***************************************************************************)
nil == "nil"

\* A validator whose dispersion bound rejects a distance of exactly 16 s.
ValidateInclusive(r) ==
    IF r.authErr # nil THEN r.authErr
    ELSE IF r.Stratum = 0 THEN "ErrKissOfDeath"
    ELSE IF r.Stratum >= maxStratum THEN "ErrInvalidStratum"
    ELSE IF SLt64(maxPollInterval, Sub64(r.Time, r.ReferenceTime))
         THEN "ErrServerClockFreshness"
    ELSE IF ~SLt64(Add64(SHalf64(r.RootDelay), r.RootDispersion), maxDispersion)
         THEN "ErrInvalidDispersion"
    ELSE IF Lt64(r.Time, r.ReferenceTime) THEN "ErrInvalidTime"
    ELSE IF r.Leap = LeapNotInSync THEN "ErrInvalidLeapSecond"
    ELSE nil

\* func (r *Response) Validate() error
Validate(r) ==
    IF r.authErr # nil THEN r.authErr
    ELSE IF r.Stratum = 0 THEN "ErrKissOfDeath"
    ELSE IF r.Stratum >= maxStratum THEN "ErrInvalidStratum"
    ELSE IF SLt64(maxPollInterval, Sub64(r.Time, r.ReferenceTime))
         THEN "ErrServerClockFreshness"
    ELSE IF SLt64(maxDispersion, Add64(SHalf64(r.RootDelay), r.RootDispersion))
         THEN "ErrInvalidDispersion"
    ELSE IF Lt64(r.Time, r.ReferenceTime) THEN "ErrInvalidTime"
    ELSE IF r.Leap = LeapNotInSync THEN "ErrInvalidLeapSecond"
    ELSE nil

(***************************************************************************)
(* Header and Response                                                     *)
(*                                                                         *)
(* A header is a record of the eleven wire fields. An ntpTimeShort is kept *)
(* as a word whose two low limbs are its fraction and its seconds. The     *)
(* 32-bit ReferenceID is kept as its four bytes, most significant first.   *)
(***************************************************************************)
none == "none"

\* A Go pointer: nil, or a pointer to x.
nilPtr == <<>>
Ptr(x) == <<x>>

\* func (h *header) getVersion() / getMode() / getLeap()
getVersion(h) == (h.LiVnMode \div 8) % 8
getMode(h) == h.LiVnMode % 8
getLeap(h) == (h.LiVnMode \div 64) % 4

\* func (h *header) setVersion(v) / setMode(md) / setLeap(li), on the
\* LiVnMode byte b, for a version and a mode below 8 and a leap below 4.
setVersion(b, v) == ((b \div 64) * 64) + (v * 8) + (b % 8)
setMode(b, md) == ((b \div 8) * 8) + md
setLeap(b, li) == (li * 64) + (b % 64)

\* func (t ntpTimeShort) Duration() time.Duration
ntpTimeShortDuration(t) ==
    LET sec  == MulInt64(<<t[2], 0, 0, 0>>, nanoPerSec)
        frac == MulInt64(<<t[1], 0, 0, 0>>, nanoPerSec)
        nsec == <<frac[2], frac[3], frac[4], 0>>
    IN  IF frac[1] >= HalfBase THEN Add64(sec, Add64(nsec, One64))
                               ELSE Add64(sec, nsec)

RECURSIVE ShiftLeft64(_, _)
ShiftLeft64(a, n) == IF n = 0 THEN a ELSE ShiftLeft64(Add64(a, a), n - 1)

RECURSIVE ShiftRight64(_, _)
ShiftRight64(a, n) == IF n = 0 THEN a ELSE ShiftRight64(Shr1(a), n - 1)

\* func toInterval(t int8) time.Duration
toInterval(t) ==
    IF t > 0 THEN ShiftLeft64(Second, t)
    ELSE IF t < 0 THEN ShiftRight64(Second, -t)
    ELSE Second

\* func kissCode(id uint32) string: the four bytes when all are printable.
kissCode(id) ==
    IF \A i \in 1..4 : id[i] >= 32 /\ id[i] <= 126 THEN id ELSE <<>>

\* A generateResponse that does not store the authentication error.
generateResponseNoAuthErr(h, recvTime, authErr) ==
    LET RTT   == rtt(h.OriginTime, h.ReceiveTime, h.TransmitTime, recvTime)
        delay == ntpTimeShortDuration(h.RootDelay)
        disp  == ntpTimeShortDuration(h.RootDispersion)
    IN  [Time           |-> ntpTimeTime(h.TransmitTime),
         ClockOffset    |-> offset(h.OriginTime, h.ReceiveTime,
                                   h.TransmitTime, recvTime),
         RTT            |-> RTT,
         Precision      |-> toInterval(h.Precision),
         Version        |-> getVersion(h),
         Stratum        |-> h.Stratum,
         ReferenceID    |-> h.ReferenceID,
         ReferenceTime  |-> ntpTimeTime(h.ReferenceTime),
         RootDelay      |-> delay,
         RootDispersion |-> disp,
         Leap           |-> getLeap(h),
         MinError       |-> minError(h.OriginTime, h.ReceiveTime,
                                     h.TransmitTime, recvTime),
         Poll           |-> toInterval(h.Poll),
         authErr        |-> nil,
         RootDistance   |-> rootDistance(RTT, delay, disp),
         KissCode       |-> IF h.Stratum = 0 THEN kissCode(h.ReferenceID)
                                             ELSE <<>>]

\* func generateResponse(h *header, recvTime ntpTime, authErr error) *Response
generateResponse(h, recvTime, authErr) ==
    LET RTT   == rtt(h.OriginTime, h.ReceiveTime, h.TransmitTime, recvTime)
        delay == ntpTimeShortDuration(h.RootDelay)
        disp  == ntpTimeShortDuration(h.RootDispersion)
    IN  [Time           |-> ntpTimeTime(h.TransmitTime),
         ClockOffset    |-> offset(h.OriginTime, h.ReceiveTime,
                                   h.TransmitTime, recvTime),
         RTT            |-> RTT,
         Precision      |-> toInterval(h.Precision),
         Version        |-> getVersion(h),
         Stratum        |-> h.Stratum,
         ReferenceID    |-> h.ReferenceID,
         ReferenceTime  |-> ntpTimeTime(h.ReferenceTime),
         RootDelay      |-> delay,
         RootDispersion |-> disp,
         Leap           |-> getLeap(h),
         MinError       |-> minError(h.OriginTime, h.ReceiveTime,
                                     h.TransmitTime, recvTime),
         Poll           |-> toInterval(h.Poll),
         authErr        |-> authErr,
         RootDistance   |-> rootDistance(RTT, delay, disp),
         KissCode       |-> IF h.Stratum = 0 THEN kissCode(h.ReferenceID)
                                             ELSE <<>>]

(***************************************************************************)
(* Exchange engine: the pure parts                                         *)
(***************************************************************************)
\* Structural checks that look at the timestamps before the mode.
StructuralCheckModeLast(recvHdr, xmitHdr) ==
    IF recvHdr.TransmitTime = Zero64 THEN "ErrInvalidTransmitTime"
    ELSE IF recvHdr.OriginTime # xmitHdr.TransmitTime
         THEN "ErrServerResponseMismatch"
    ELSE IF Lt64(recvHdr.TransmitTime, recvHdr.ReceiveTime)
         THEN "ErrServerTickedBackwards"
    ELSE IF getMode(recvHdr) # server THEN "ErrInvalidMode"
    ELSE nil

\* Structural checks without the origin check.
StructuralCheckNoOrigin(recvHdr, xmitHdr) ==
    IF getMode(recvHdr) # server THEN "ErrInvalidMode"
    ELSE IF recvHdr.TransmitTime = Zero64 THEN "ErrInvalidTransmitTime"
    ELSE IF Lt64(recvHdr.TransmitTime, recvHdr.ReceiveTime)
         THEN "ErrServerTickedBackwards"
    ELSE nil

\* getTime, "Check for invalid fields": the error of the first failing
\* check, nil when all four pass.
StructuralCheck(recvHdr, xmitHdr) ==
    IF getMode(recvHdr) # server THEN "ErrInvalidMode"
    ELSE IF recvHdr.TransmitTime = Zero64 THEN "ErrInvalidTransmitTime"
    ELSE IF recvHdr.OriginTime # xmitHdr.TransmitTime
         THEN "ErrServerResponseMismatch"
    ELSE IF Lt64(recvHdr.TransmitTime, recvHdr.ReceiveTime)
         THEN "ErrServerTickedBackwards"
    ELSE nil

\* The order the ProcessQuery hooks of n extensions are called in.
QueryHookOrder(n) == [k \in 1..n |-> k]

\* ProcessResponse hooks called in list order.
ResponseHookOrderForward(n) == [k \in 1..n |-> k]

\* The order the ProcessResponse hooks of n extensions are called in.
ResponseHookOrder(n) == [k \in 1..n |-> n + 1 - k]

\* decodeAuthKey: a configured key that does not decode is an error; no
\* configuration, or a key that decodes, is none.
decodeAuthKey(auth) == IF auth = "badkey" THEN "ErrInvalidAuthKey" ELSE nil

\* appendMAC: the MAC the query carries (none without a key).
appendMAC(auth) == IF auth = "key" THEN "valid" ELSE none

\* verifyMAC: without a key nothing is verified; with one, only a MAC
\* computed with that key over exactly the bytes received verifies.
verifyMAC(mac, auth) ==
    IF auth = none THEN nil
    ELSE IF mac = "valid" THEN nil
    ELSE "ErrAuthFailed"

\* A QueryWithOptions that treats an authentication failure as any other
\* error of getTime.
QueryWithOptionsAbortOnAuth(h, now, err) ==
    IF err # nil
    THEN [pc |-> "returned", resp |-> nilPtr, err |-> err]
    ELSE [pc |-> "returned", resp |-> Ptr(generateResponse(h[1], now, err)),
          err |-> nil]

\* func QueryWithOptions, after getTime returned (h, now, err). With a nil h
\* generateResponse dereferences a nil pointer: the call panics.
QueryWithOptions(h, now, err) ==
    IF err # nil /\ err # "ErrAuthFailed"
    THEN [pc |-> "returned", resp |-> nilPtr, err |-> err]
    ELSE IF h = nilPtr
    THEN [pc |-> "panicked", resp |-> nilPtr, err |-> nil]
    ELSE [pc |-> "returned", resp |-> Ptr(generateResponse(h[1], now, err)),
          err |-> nil]

\* A Time that does not call Validate.
TimeUnvalidated(r, err, now) ==
    IF err # nil THEN [t |-> now, err |-> err]
    ELSE [t |-> Add64(now, r[1].ClockOffset), err |-> nil]

\* func Time, after Query returned (r, err), with time.Now() = now.
Time(r, err, now) ==
    IF err # nil THEN [t |-> now, err |-> err]
    ELSE LET e == Validate(r[1])
         IN  IF e # nil THEN [t |-> now, err |-> e]
             ELSE [t |-> Add64(now, r[1].ClockOffset), err |-> nil]

(***************************************************************************)
(* State                                                                   *)
(***************************************************************************)
VARIABLES
    calc,     \* the pure computation under check: its inputs and its results
    pc,       \* where the call of QueryWithOptions stands
    opt,      \* the QueryOptions of the call
    conn,     \* the transport: "none", "open" or "closed"
    events,   \* the calls made so far, in order, each with what it returned
    xmitHdr,  \* the query header
    reply,    \* the datagram read
    resp,     \* the *Response returned
    ret,      \* what getTime returned: the header, the receive time, the error
    qerr,     \* the error returned by QueryWithOptions
    verr,     \* what the caller's Validate returned
    timeRet   \* what Time returned: the time and the error

exchVars ==
    <<pc, opt, conn, events, xmitHdr, reply, ret, resp, qerr, verr, timeRet>>
vars == <<calc, exchVars>>

\* No exchange: the state of the specifications of the pure functions.
NoExchange ==
    /\ pc = "idle"
    /\ opt = none
    /\ conn = none
    /\ events = <<>>
    /\ xmitHdr = none
    /\ reply = none
    /\ ret = none
    /\ resp = nilPtr
    /\ qerr = nil
    /\ verr = none
    /\ timeRet = none

(***************************************************************************)
(* SpecCodec: toNtpTime followed by ntpTime.Time, over sampled instants    *)
(***************************************************************************)
MaxSecStep == 1
MaxNsStep == 2

\* Whole seconds since 1900 of 1970-01-01, of a day in 2023, of the era
\* rollover (2036-02-07 06:28:16) and of the instant 2^32 s after 1970.
Sec1970 == <<32384, 33706, 0, 0>>
Sec2023 == <<4660, 59648, 0, 0>>
Sec2036 == <<0, 0, 1, 0>>
Sec2106 == Add64(Sec1970, Sec2036)

SecSamples ==
    UNION { { Add64(a, FromInt(i)) : i \in 0..MaxSecStep }
            \cup { Sub64(a, FromInt(i)) : i \in 1..(MaxSecStep + 1) }
          : a \in {Sec1970, Sec2023, Sec2036, Sec2106} }

NsSamples ==
    (0..MaxNsStep)
    \cup { nanoPerSec \div 2 + i - MaxNsStep : i \in 0..(2 * MaxNsStep) }
    \cup { nanoPerSec - 1 - i : i \in 0..MaxNsStep }
    \cup { 111111111 * i + i : i \in 1..(MaxNsStep + 2) }

Instant(sec, ns) == Add64(MulInt64(sec, nanoPerSec), FromInt(ns))

\* The instants the era rule decodes: from 1970-01-01 up to, not including,
\* 2^32 seconds later (2106-02-07 06:28:16).
InSupportedRange(t) ==
    /\ Le64(Instant(Sec1970, 0), t)
    /\ Lt64(t, Instant(Sec2106, 0))

InitCodec ==
    /\ NoExchange
    /\ \E s \in SecSamples, n \in NsSamples :
        calc = [op |-> "roundtrip", t |-> Instant(s, n), done |-> FALSE,
                ntp |-> Zero64, back |-> Zero64]

RoundTrip ==
    /\ calc.op = "roundtrip"
    /\ ~calc.done
    /\ calc' = [calc EXCEPT !.done = TRUE,
                            !.ntp = toNtpTime(calc.t),
                            !.back = ntpTimeTime(toNtpTime(calc.t))]
    /\ UNCHANGED exchVars

NextCodec == RoundTrip

SpecCodec == InitCodec /\ [][NextCodec]_vars

\* |a - b| of two instants, in nanoseconds.
AbsDiff(a, b) == IF Lt64(a, b) THEN Sub64(b, a) ELSE Sub64(a, b)

\* C10: for every instant t of the supported range, ntpTime.Time applied to
\* toNtpTime(t) is an instant at most one nanosecond away from t.
C10_RoundTrip ==
    (calc.op = "roundtrip" /\ calc.done /\ InSupportedRange(calc.t))
        => Le64(AbsDiff(calc.back, calc.t), One64)

\* An instant after the 2036 rollover, with a fraction that is not a whole
\* number of 2^-32 s, has been encoded (raw value below t1970) and decoded.
C10_Witness ==
    /\ calc.op = "roundtrip"
    /\ calc.done
    /\ InSupportedRange(calc.t)
    /\ Lt64(calc.ntp, t1970)
    /\ Low32(calc.ntp) # Zero64
    /\ Le64(Instant(Sec2036, 0), calc.t)

(***************************************************************************)
(* SpecArith: offset and rtt over sampled timestamps                       *)
(*                                                                         *)
(* An era sample is a true instant 2^64 + k * 2^61 + j, counted in 2^-32 s *)
(* from 1900: k steps of about 17 years around the 2036 rollover, plus j   *)
(* units. Its timestamp is that value modulo 2^64.                         *)
(***************************************************************************)
MaxK == 2
MaxJ == 1
MaxShift == 3

EraStamp(k, j) == <<j, 0, 0, ((k + 8) % 8) * 8192>>

\* The int64 word of m * 2^60 + r, for small integers m and r.
SignedWord(m, r) ==
    LET big   == IF m >= 0 THEN <<0, 0, 0, m * 4096>>
                           ELSE Neg64(<<0, 0, 0, (-m) * 4096>>)
        small == IF r >= 0 THEN FromInt(r) ELSE Neg64(FromInt(-r))
    IN  Add64(big, small)

\* The timestamps of the worked example: 100.0 s, 100.5 s, 100.6 s and
\* 101.0 s, each moved by s whole seconds.
ExampleOrg(s) == <<0, 0, 100 + s, 0>>
ExampleRec(s) == <<0, 32768, 100 + s, 0>>
ExampleXmt(s) == <<39322, 39321, 100 + s, 0>>
ExampleDst(s) == <<0, 0, 101 + s, 0>>

InitArithEra ==
    \E ko, kr, kx, kd \in (-MaxK)..MaxK, jo, jr, jx, jd \in 0..MaxJ :
        calc = [op |-> "arith", kind |-> "era",
                k |-> <<ko, kr, kx, kd>>, j |-> <<jo, jr, jx, jd>>,
                org |-> EraStamp(ko, jo), rec |-> EraStamp(kr, jr),
                xmt |-> EraStamp(kx, jx), dst |-> EraStamp(kd, jd),
                done |-> FALSE, offset |-> Zero64, rtt |-> Zero64]

InitArithExample ==
    \E s \in 0..MaxShift :
        calc = [op |-> "arith", kind |-> "example",
                k |-> <<s, s, s, s>>, j |-> <<0, 0, 0, 0>>,
                org |-> ExampleOrg(s), rec |-> ExampleRec(s),
                xmt |-> ExampleXmt(s), dst |-> ExampleDst(s),
                done |-> FALSE, offset |-> Zero64, rtt |-> Zero64]

InitArith == NoExchange /\ (InitArithEra \/ InitArithExample)

Compute ==
    /\ calc.op = "arith"
    /\ ~calc.done
    /\ calc' = [calc EXCEPT
                   !.done = TRUE,
                   !.offset = offset(calc.org, calc.rec, calc.xmt, calc.dst),
                   !.rtt = rtt(calc.org, calc.rec, calc.xmt, calc.dst)]
    /\ UNCHANGED exchVars

NextArith == Compute

SpecArith == InitArith /\ [][NextArith]_vars

\* |x - n| <= 1 for a duration x and n nanoseconds.
NearNs(x, n) == Le64(AbsDiff(x, FromInt(n)), One64)

ExampleDone == calc.op = "arith" /\ calc.kind = "example" /\ calc.done

\* C8 (as amended): for org = 100.0 s, rec = 100.5 s, xmt = 100.6 s and
\* dst = 101.0 s, offset is 0.05 s and rtt is 0.9 s, each to the nanosecond.
C8_Example ==
    ExampleDone => /\ NearNs(calc.offset, 50000000)
                   /\ NearNs(calc.rtt, 900000000)

\* C8 as stated: for these timestamps offset is about 0.05 s and rtt is
\* about 0.4 s (to within a millisecond).
C8_AsStated ==
    (ExampleDone /\ calc.k[1] = 0)
        => /\ Le64(AbsDiff(calc.offset, FromInt(50000000)), FromInt(1000000))
           /\ Le64(AbsDiff(calc.rtt, FromInt(400000000)), FromInt(1000000))

\* The worked example itself has been computed.
C8_Witness == ExampleDone /\ calc.k[1] = 0 /\ calc.org = <<0, 0, 100, 0>>

\* Whether the true instants p and q of an era sample are less than n steps
\* of 2^61 units apart (n = 4: 2^63 units, about 68 years; n = 2: 2^62
\* units, about 34 years).
DeltaK(p, q) == calc.k[p] - calc.k[q]
DeltaJ(p, q) == calc.j[p] - calc.j[q]
Apart(p, q, n) ==
    LET dk == DeltaK(p, q)
        dj == DeltaJ(p, q)
    IN  \/ (dk < n /\ dk > -n)
        \/ (dk = n /\ dj < 0)
        \/ (dk = -n /\ dj > 0)

AllApart(n) == \A p, q \in 1..4 : Apart(p, q, n)

\* (rec-org) + ((xmt-dst) - (rec-org))/2 on the true instants, the division
\* truncating toward zero as Go's does, as an int64 count of 2^-32 s.
TrueOffset ==
    LET ak == DeltaK(2, 1)
        aj == DeltaJ(2, 1)
        dk == DeltaK(3, 4) - ak
        dj == DeltaJ(3, 4) - aj
        dNeg == dk < 0 \/ (dk = 0 /\ dj < 0)
        hj == IF dNeg THEN -((-dj) \div 2) ELSE dj \div 2
    IN  SignedWord(2 * ak + dk, aj + hj)

EraDone == calc.op = "arith" /\ calc.kind = "era" /\ calc.done

\* Whether (xmt-dst) - (rec-org), on the true instants, is less than 2^63
\* units in magnitude: whether it fits the int64 the code keeps it in.
DifferenceFits ==
    LET dk == DeltaK(3, 4) - DeltaK(2, 1)
        dj == DeltaJ(3, 4) - DeltaJ(2, 1)
    IN  \/ (dk < 4 /\ dk > -4)
        \/ (dk = 4 /\ dj < 0)
        \/ (dk = -4 /\ dj > 0)

\* C9 (as amended): when the true instants of the four timestamps lie less
\* than 2^63 units (about 68 years) from each other, on either side of the
\* era wraparound, and (xmt-dst) - (rec-org) is itself less than 2^63 units
\* in magnitude, offset is the duration of the signed value computed on the
\* true instants.
C9_Offset ==
    (EraDone /\ AllApart(4) /\ DifferenceFits)
        => calc.offset = SignedDuration(TrueOffset)

\* C9 as stated: the same for instants less than 2^63 units (about 68
\* years) from each other.
C9_AsStated ==
    (EraDone /\ AllApart(4)) => calc.offset = SignedDuration(TrueOffset)

\* Timestamps on both sides of the wraparound, a negative offset.
C9_Witness ==
    /\ EraDone
    /\ AllApart(4)
    /\ DifferenceFits
    /\ calc.k[1] = 0 /\ calc.k[2] = -1 /\ calc.k[3] = -1 /\ calc.k[4] = 0
    /\ calc.j = <<0, 1, 0, 1>>
    /\ IsNeg64(calc.offset)

(***************************************************************************)
(* SpecValidate: Validate over sampled Response records                    *)
(***************************************************************************)
MaxNsOff == 1

\* A Response with the fields Validate reads set, the others zero.
SampleResponse(authErr, stratum, time, refTime, delay, disp, leap) ==
    [ClockOffset |-> Zero64, Time |-> time, RTT |-> Zero64,
     Precision |-> Zero64, Version |-> defaultNtpVersion, Stratum |-> stratum,
     ReferenceID |-> 0, ReferenceTime |-> refTime, RootDelay |-> delay,
     RootDispersion |-> disp, RootDistance |-> Zero64, Leap |-> leap,
     MinError |-> Zero64, KissCode |-> "", Poll |-> Zero64,
     authErr |-> authErr]

SampleRefTime == Instant(Sec2023, 0)

\* Response.Time: around the reference time and around the freshness bound.
SampleTimes ==
    { Add64(SampleRefTime, FromInt(i)) : i \in 0..MaxNsOff }
    \cup { Sub64(SampleRefTime, FromInt(i)) : i \in 1..MaxNsOff }
    \cup { Sub64(SampleRefTime, Add64(maxPollInterval, FromInt(i))) : i \in 0..MaxNsOff }
    \cup { Add64(SampleRefTime, Add64(maxPollInterval, FromInt(i))) : i \in 0..MaxNsOff }
    \cup { Add64(SampleRefTime, Sub64(maxPollInterval, FromInt(i))) : i \in 1..MaxNsOff }

\* RootDelay and RootDispersion: sums around the 16 s bound, odd delays too.
SampleDelays == { MulInt64(FromInt(i), 2) : i \in 0..MaxNsOff }
                \cup { FromInt(2 * i + 1) : i \in 0..MaxNsOff }
                \cup { MulInt64(FromInt(32), nanoPerSec) }
SampleDisps == { Sub64(maxDispersion, FromInt(i)) : i \in 0..(MaxNsOff + 1) }
               \cup { Add64(maxDispersion, FromInt(i)) : i \in 1..MaxNsOff }
               \cup { Zero64 }

SampleStrata == {0, 1, maxStratum - 1, maxStratum, maxStratum + 1, 255}

InitValidate ==
    /\ NoExchange
    /\ \E a \in {nil, "ErrAuthFailed"}, st \in SampleStrata, t \in SampleTimes,
       d \in SampleDelays, p \in SampleDisps, l \in 0..3 :
        calc = [op |-> "validate",
                r |-> SampleResponse(a, st, t, SampleRefTime, d, p, l),
                given |-> SampleResponse(a, st, t, SampleRefTime, d, p, l),
                done |-> FALSE, err |-> nil]

\* A caller's r.Validate(): the receiver is only read.
CallValidate ==
    /\ calc.op = "validate"
    /\ ~calc.done
    /\ calc' = [calc EXCEPT !.done = TRUE, !.err = Validate(calc.r)]
    /\ UNCHANGED exchVars

NextValidate == CallValidate

SpecValidate == InitValidate /\ [][NextValidate]_vars

\* The seven rules, each on its own. Durations are Go's: int64 nanoseconds,
\* RootDelay/2 truncated.
RuleAuth == calc.given.authErr # nil
RuleKiss == calc.given.Stratum = 0
RuleStratum == calc.given.Stratum >= 16
RuleFresh ==
    Lt64(Add64(calc.given.ReferenceTime, MulInt64(FromInt(2^17), nanoPerSec)),
         calc.given.Time)
RuleDispersion ==
    Lt64(MulInt64(FromInt(16), nanoPerSec),
         Add64(Shr1(calc.given.RootDelay), calc.given.RootDispersion))
RuleTime == Lt64(calc.given.Time, calc.given.ReferenceTime)
RuleLeap == calc.given.Leap = 3

\* C7: Validate returns the error of the first matching rule, in the order
\* authentication failure, stratum 0, stratum >= 16, freshness above 2^17 s,
\* RootDelay/2 + RootDispersion above 16 s (exactly 16 s passes), Time before
\* ReferenceTime, leap indicator 3; nil exactly when no rule matches; and
\* the Response is left as it was.
C7_Validate ==
    (calc.op = "validate" /\ calc.done) =>
        /\ RuleAuth => calc.err = calc.given.authErr
        /\ (~RuleAuth /\ RuleKiss) => calc.err = "ErrKissOfDeath"
        /\ (~RuleAuth /\ ~RuleKiss /\ RuleStratum)
              => calc.err = "ErrInvalidStratum"
        /\ (~RuleAuth /\ ~RuleKiss /\ ~RuleStratum /\ RuleFresh)
              => calc.err = "ErrServerClockFreshness"
        /\ (~RuleAuth /\ ~RuleKiss /\ ~RuleStratum /\ ~RuleFresh
               /\ RuleDispersion)
              => calc.err = "ErrInvalidDispersion"
        /\ (~RuleAuth /\ ~RuleKiss /\ ~RuleStratum /\ ~RuleFresh
               /\ ~RuleDispersion /\ RuleTime)
              => calc.err = "ErrInvalidTime"
        /\ (~RuleAuth /\ ~RuleKiss /\ ~RuleStratum /\ ~RuleFresh
               /\ ~RuleDispersion /\ ~RuleTime /\ RuleLeap)
              => calc.err = "ErrInvalidLeapSecond"
        /\ (calc.err = nil) <=>
              ~(RuleAuth \/ RuleKiss \/ RuleStratum \/ RuleFresh
                  \/ RuleDispersion \/ RuleTime \/ RuleLeap)
        /\ calc.r = calc.given

\* A response at exactly the 16 s bound (an odd RootDelay, halved with
\* truncation) whose only fault is the leap indicator.
C7_Witness ==
    /\ calc.op = "validate"
    /\ calc.done
    /\ calc.r.RootDelay = FromInt(1)
    /\ calc.r.RootDispersion = maxDispersion
    /\ calc.r.Time = Add64(SampleRefTime, maxPollInterval)
    /\ calc.r.Stratum = maxStratum - 1
    /\ calc.err = "ErrInvalidLeapSecond"

(***************************************************************************)
(* Spec: one call of QueryWithOptions, then the caller's Validate          *)
(*                                                                         *)
(* The environment chooses the options, what each outside call returns     *)
(* (the dialer, SetTTL, rand.Read, the extensions' hooks, Write, Read) and *)
(* the datagram read.                                                      *)
(***************************************************************************)
MaxExt == 2
MaxFaults == 2

VersionSamples == {0, 1}
TTLSamples == {0, 64}
AddressSamples == {"pool.ntp.org", ""}
AuthSamples == {none, "key", "badkey"}
DialerSamples == {"default", "Dialer", "Dial"}
HookResults == {nil, "errExtension", "ErrAuthFailed", "ErrInvalidMode"}
DeadlineResults == {nil, "errSetDeadline"}

\* The 64 random bits rand.Read may deliver.
Decoys == { <<4369, 8738, 13107, 17476>> }

\* The local clock when the query is written and when the reply is read.
xmitTime == Instant(Sec2023, 250000000)
recvTime == Add64(xmitTime, FromInt(40000000))

\* A well-formed reply header to a query whose decoy is d.
GoodHeader(d) ==
    [LiVnMode       |-> 36,
     Stratum        |-> 2,
     Poll           |-> 6,
     Precision      |-> -20,
     RootDelay      |-> <<16384, 0, 0, 0>>,
     RootDispersion |-> <<32768, 0, 0, 0>>,
     ReferenceID    |-> <<10, 0, 0, 1>>,
     ReferenceTime  |-> <<0, 0, 3636, 59648>>,
     OriginTime     |-> d,
     ReceiveTime    |-> <<0, 16384, 4660, 59648>>,
     TransmitTime   |-> <<0, 17664, 4660, 59648>>]

\* Another value of one byte of the reply header: a client mode, an
\* unsynchronized leap, stratum 0, a dispersion above 17 s, a stale
\* reference time, an origin that is not the decoy sent, a receive time
\* after the transmit time.
OneByteAlternatives(d) ==
    { <<"LiVnMode", 35>>, <<"LiVnMode", 228>>,
      <<"Stratum", 0>>,
      <<"RootDispersion", <<32768, 17, 0, 0>> >>,
      <<"ReferenceTime", <<0, 0, 3636, 59392>> >>,
      <<"OriginTime", [d EXCEPT ![1] = (d[1] + 1) % Base]>>,
      <<"ReceiveTime", <<0, 49152, 4660, 59648>> >> }

\* Other values a field of the reply may hold: the above, a kiss code and a
\* zero transmit time.
FieldAlternatives(d) ==
    OneByteAlternatives(d)
    \cup { <<"ReferenceID", <<82, 65, 84, 69>> >>,
           <<"TransmitTime", Zero64>> }

\* The headers that differ from the well-formed one in at most k fields.
RECURSIVE HeadersWithin(_, _)
HeadersWithin(d, k) ==
    IF k = 0 THEN {GoodHeader(d)}
    ELSE LET less == HeadersWithin(d, k - 1)
         IN  less \cup { [h EXCEPT ![fv[1]] = fv[2]] :
                           h \in less, fv \in FieldAlternatives(d) }

\* The MAC of a reply: computed with the key over the bytes received, not
\* matching them (the header or the MAC changed on the way, or another
\* key), or absent.
MacSamples == {"valid", "mismatch", none}

ReplySamples(d) ==
    { [short |-> FALSE, hdr |-> h, mac |-> m] :
        h \in HeadersWithin(d, MaxFaults), m \in MacSamples }
    \cup { [short |-> TRUE, hdr |-> none, mac |-> none] }

Ev(op, i, err) == [op |-> op, i |-> i, err |-> err]

\* How many calls of op the exchange has made.
Calls(op) == Cardinality({ k \in 1..Len(events) : events[k].op = op })

\* getTime: opt.Version after the default is filled in.
Version == IF opt.Version = 0 THEN defaultNtpVersion ELSE opt.Version

\* A useDefaultDialer that overlooks the deprecated Dial callback.
useDefaultDialerUnlessDialer == opt.Dialer # "Dialer"

\* var useDefaultDialer bool = opt.Dialer == nil, after a Dial callback has
\* been wrapped into opt.Dialer.
useDefaultDialer == opt.Dialer = "default"

\* getTime returns (h, now, err) after the calls evs: the deferred Close of
\* the default dialer's connection runs.
Return(h, now, err, evs) ==
    LET closing == useDefaultDialer /\ conn = "open"
    IN  /\ events' = IF closing THEN Append(evs, Ev("Close", 0, nil)) ELSE evs
        /\ conn' = IF closing THEN "closed" ELSE conn
        /\ ret' = [h |-> h, now |-> now, err |-> err]
        /\ pc' = "gotTime"

Init ==
    /\ calc = [op |-> none]
    /\ pc = "start"
    /\ opt \in [Version : VersionSamples, TTL : TTLSamples,
                Address : AddressSamples, Auth : AuthSamples,
                Dialer : DialerSamples, Extensions : 0..MaxExt]
    /\ conn = none
    /\ events = <<>>
    /\ xmitHdr = none
    /\ reply = none
    /\ ret = none
    /\ resp = nilPtr
    /\ qerr = nil
    /\ verr = none
    /\ timeRet = none

\* getTime up to the dial: defaults, the version range, fixHostPort.
Prepare ==
    /\ pc = "start"
    /\ UNCHANGED <<calc, opt, xmitHdr, reply, resp, qerr, verr, timeRet>>
    /\ IF Version < 2 \/ Version > 4
       THEN Return(nilPtr, Zero64, "ErrInvalidProtocolVersion", events)
       ELSE IF opt.Address = ""
       THEN Return(nilPtr, Zero64, "errAddress", events)
       ELSE /\ pc' = "dial"
            /\ UNCHANGED <<conn, events, ret>>

\* con, err := opt.Dialer(opt.LocalAddress, remoteAddress)
Dial ==
    /\ pc = "dial"
    /\ UNCHANGED <<calc, opt, xmitHdr, reply, resp, qerr, verr, timeRet>>
    /\ \/ /\ conn' = "open"
          /\ events' = Append(events, Ev("Dial", 0, nil))
          /\ pc' = "ttl"
          /\ UNCHANGED ret
       \/ Return(nilPtr, Zero64, "errDial", Append(events, Ev("Dial", 0, "errDial")))

\* if opt.TTL != 0 { ipcon.SetTTL(opt.TTL) }
SetTTL ==
    /\ pc = "ttl"
    /\ UNCHANGED <<calc, opt, xmitHdr, reply, resp, qerr, verr, timeRet>>
    /\ IF opt.TTL = 0
       THEN /\ pc' = "deadline"
            /\ UNCHANGED <<conn, events, ret>>
       ELSE \/ /\ events' = Append(events, Ev("SetTTL", 0, nil))
               /\ pc' = "deadline"
               /\ UNCHANGED <<conn, ret>>
            \/ Return(nilPtr, Zero64, "errSetTTL",
                      Append(events, Ev("SetTTL", 0, "errSetTTL")))

\* con.SetDeadline(time.Now().Add(opt.Timeout)): what the call returns is
\* not looked at.
SetDeadline ==
    /\ pc = "deadline"
    /\ \E e \in DeadlineResults :
         events' = Append(events, Ev("SetDeadline", 0, e))
    /\ pc' = "rand"
    /\ UNCHANGED <<calc, opt, conn, xmitHdr, reply, ret, resp, qerr, verr, timeRet>>

\* The query header, rand.Read for its TransmitTime, binary.Write.
BuildQuery ==
    /\ pc = "rand"
    /\ UNCHANGED <<calc, opt, reply, resp, qerr, verr, timeRet>>
    /\ \/ /\ Return(nilPtr, Zero64, "errRand",
                    Append(events, Ev("rand.Read", 0, "errRand")))
          /\ UNCHANGED xmitHdr
       \/ \E d \in Decoys :
            /\ xmitHdr' = [LiVnMode |-> setLeap(setVersion(setMode(0, client),
                                                            Version), 0),
                           Precision |-> 32,
                           TransmitTime |-> d]
            /\ events' = events \o <<Ev("rand.Read", 0, nil),
                                     Ev("binary.Write", 0, nil)>>
            /\ pc' = "query"
            /\ UNCHANGED <<conn, ret>>

\* One turn of the loop over opt.Extensions: e.ProcessQuery(&xmitBuf).
ProcessQuery ==
    /\ pc = "query"
    /\ Calls("ProcessQuery") < opt.Extensions
    /\ UNCHANGED <<calc, opt, xmitHdr, reply, resp, qerr, verr, timeRet>>
    /\ LET i == QueryHookOrder(opt.Extensions)[Calls("ProcessQuery") + 1]
       IN  \E e \in HookResults :
             IF e = nil
             THEN /\ events' = Append(events, Ev("ProcessQuery", i, nil))
                  /\ UNCHANGED <<pc, conn, ret>>
             ELSE Return(nilPtr, Zero64, e,
                         Append(events, Ev("ProcessQuery", i, e)))

\* decodeAuthKey and appendMAC, once the loop is over.
AppendMAC ==
    /\ pc = "query"
    /\ Calls("ProcessQuery") = opt.Extensions
    /\ UNCHANGED <<calc, opt, xmitHdr, reply, resp, qerr, verr, timeRet>>
    /\ IF decodeAuthKey(opt.Auth) # nil
       THEN Return(nilPtr, Zero64, decodeAuthKey(opt.Auth),
                   Append(events, Ev("decodeAuthKey", 0, decodeAuthKey(opt.Auth))))
       ELSE /\ events' = events \o <<Ev("decodeAuthKey", 0, nil),
                                     Ev("appendMAC", 0, appendMAC(opt.Auth))>>
            /\ pc' = "write"
            /\ UNCHANGED <<conn, ret>>

\* con.Write(xmitBuf.Bytes())
Write ==
    /\ pc = "write"
    /\ UNCHANGED <<calc, opt, xmitHdr, reply, resp, qerr, verr, timeRet>>
    /\ \/ /\ events' = Append(events, Ev("Write", 0, nil))
          /\ pc' = "read"
          /\ UNCHANGED <<conn, ret>>
       \/ Return(nilPtr, Zero64, "errWrite",
                 Append(events, Ev("Write", 0, "errWrite")))

\* con.Read(recvBuf)
Read ==
    /\ pc = "read"
    /\ UNCHANGED <<calc, opt, xmitHdr, resp, qerr, verr, timeRet>>
    /\ \/ /\ Return(nilPtr, Zero64, "errRead",
                    Append(events, Ev("Read", 0, "errRead")))
          /\ UNCHANGED reply
       \/ \E m \in ReplySamples(xmitHdr.TransmitTime) :
            /\ reply' = m
            /\ events' = Append(events, Ev("Read", 0, nil))
            /\ pc' = "decode"
            /\ UNCHANGED <<conn, ret>>

\* binary.Read(recvReader, binary.BigEndian, recvHdr): fewer bytes than a
\* header holds is an error.
Decode ==
    /\ pc = "decode"
    /\ UNCHANGED <<calc, opt, xmitHdr, reply, resp, qerr, verr, timeRet>>
    /\ IF reply.short
       THEN Return(nilPtr, Zero64, "errUnexpectedEOF",
                   Append(events, Ev("binary.Read", 0, "errUnexpectedEOF")))
       ELSE /\ events' = Append(events, Ev("binary.Read", 0, nil))
            /\ pc' = "response"
            /\ UNCHANGED <<conn, ret>>

\* One turn of the loop: opt.Extensions[i].ProcessResponse(recvBuf).
ProcessResponse ==
    /\ pc = "response"
    /\ Calls("ProcessResponse") < opt.Extensions
    /\ UNCHANGED <<calc, opt, xmitHdr, reply, resp, qerr, verr, timeRet>>
    /\ LET i == ResponseHookOrder(opt.Extensions)[Calls("ProcessResponse") + 1]
       IN  \E e \in HookResults :
             IF e = nil
             THEN /\ events' = Append(events, Ev("ProcessResponse", i, nil))
                  /\ UNCHANGED <<pc, conn, ret>>
             ELSE Return(nilPtr, Zero64, e,
                         Append(events, Ev("ProcessResponse", i, e)))

\* The rest of getTime, once the loop is over: the structural checks, the
\* true origin time, verifyMAC; then the rest of QueryWithOptions.
CheckAndReturn ==
    /\ pc = "response"
    /\ Calls("ProcessResponse") = opt.Extensions
    /\ UNCHANGED <<calc, opt, xmitHdr, reply, resp, qerr, verr, timeRet>>
    /\ LET e == StructuralCheck(reply.hdr, xmitHdr)
           authErr == verifyMAC(reply.mac, opt.Auth)
       IN  IF e # nil
           THEN Return(nilPtr, Zero64, e, Append(events, Ev("check", 0, e)))
           ELSE Return(Ptr([reply.hdr EXCEPT !.OriginTime = toNtpTime(xmitTime)]),
                       toNtpTime(recvTime), authErr,
                       events \o <<Ev("check", 0, nil),
                                   Ev("verifyMAC", 0, authErr)>>)

\* The rest of QueryWithOptions, once getTime has returned.
Respond ==
    /\ pc = "gotTime"
    /\ LET r == QueryWithOptions(ret.h, ret.now, ret.err)
       IN  /\ pc' = r.pc
           /\ resp' = r.resp
           /\ qerr' = r.err
    /\ UNCHANGED <<calc, opt, conn, events, xmitHdr, reply, ret, verr, timeRet>>

\* The caller's r.Validate() on the Response returned.
CallerValidate ==
    /\ pc = "returned"
    /\ resp # nilPtr
    /\ verr' = Validate(resp[1])
    /\ pc' = "validated"
    /\ UNCHANGED <<calc, opt, conn, events, xmitHdr, reply, ret, resp, qerr,
                 timeRet>>

\* The local clock when Time returns.
localNow == Add64(recvTime, FromInt(1000000))

\* func Query: the options QueryWithOptions is called with.
IsQuery ==
    /\ opt.Version = 0
    /\ opt.TTL = 0
    /\ opt.Auth = none
    /\ opt.Dialer = "default"
    /\ opt.Extensions = 0

\* The rest of Time, once Query has returned.
TimeReturn ==
    /\ pc = "returned"
    /\ IsQuery
    /\ timeRet' = Time(resp, qerr, localNow)
    /\ pc' = "timeReturned"
    /\ UNCHANGED <<calc, opt, conn, events, xmitHdr, reply, ret, resp, qerr,
                   verr>>

Next ==
    \/ Prepare
    \/ Dial
    \/ SetTTL
    \/ SetDeadline
    \/ BuildQuery
    \/ ProcessQuery
    \/ AppendMAC
    \/ Write
    \/ Read
    \/ Decode
    \/ ProcessResponse
    \/ CheckAndReturn
    \/ Respond
    \/ CallerValidate
    \/ TimeReturn

Spec == Init /\ [][Next]_vars

(***************************************************************************)
(* Properties of the exchange                                              *)
(***************************************************************************)
\* The positions in events of the calls of op.
At(op) == { k \in 1..Len(events) : events[k].op = op }

\* getTime has returned; QueryWithOptions has returned or panicked.
GotTime == pc \in {"gotTime", "returned", "validated", "panicked"}
Done == pc \in {"returned", "validated", "panicked"}

\* The reply header was decoded; every ProcessResponse hook returned nil.
Decoded == \E k \in At("binary.Read") : events[k].err = nil
HooksPassed ==
    Cardinality({ k \in At("ProcessResponse") : events[k].err = nil })
        = opt.Extensions

\* The MAC verification of the reply ran and failed.
MacFailed == \E k \in At("verifyMAC") : events[k].err # nil

\* The header generateResponse is given for the reply read.
CorrectedHeader == [reply.hdr EXCEPT !.OriginTime = toNtpTime(xmitTime)]

StructuralErrors ==
    {"ErrInvalidMode", "ErrInvalidTransmitTime",
     "ErrServerResponseMismatch", "ErrServerTickedBackwards"}

\* C1: when the reply passed the four structural checks and its MAC
\* verification failed, QueryWithOptions returns a Response populated from
\* the reply together with a nil error, and Validate on that Response
\* returns ErrAuthFailed whatever the stratum, reference time, dispersion,
\* time and leap of the reply are.
C1_DeferredAuthFailure ==
    (Done /\ MacFailed) =>
        /\ getMode(reply.hdr) = server
        /\ reply.hdr.TransmitTime # Zero64
        /\ reply.hdr.OriginTime = xmitHdr.TransmitTime
        /\ Le64(reply.hdr.ReceiveTime, reply.hdr.TransmitTime)
        /\ pc \in {"returned", "validated"}
        /\ qerr = nil
        /\ resp # nilPtr
        /\ resp[1].Stratum = reply.hdr.Stratum
        /\ resp[1].Leap = getLeap(reply.hdr)
        /\ resp[1].ReferenceID = reply.hdr.ReferenceID
        /\ resp[1].Time = ntpTimeTime(reply.hdr.TransmitTime)
        /\ resp[1].authErr = "ErrAuthFailed"
        /\ (pc = "validated" => verr = "ErrAuthFailed")

\* A kiss-of-death reply whose MAC does not verify: Validate reports the
\* authentication failure.
C1_Witness ==
    /\ pc = "validated"
    /\ MacFailed
    /\ resp # nilPtr
    /\ resp[1].Stratum = 0
    /\ resp[1].KissCode # <<>>
    /\ qerr = nil
    /\ verr = "ErrAuthFailed"

\* C2: a decoded reply in server mode with a nonzero transmit timestamp
\* whose origin timestamp is not the decoy of the query, and that every
\* ProcessResponse hook accepted, makes the exchange fail with
\* ErrServerResponseMismatch and return no Response, whatever its other
\* fields and its MAC.
OriginMismatch ==
    /\ Decoded
    /\ getMode(reply.hdr) = server
    /\ reply.hdr.TransmitTime # Zero64
    /\ reply.hdr.OriginTime # xmitHdr.TransmitTime

C2_Rejected ==
    /\ ret.err = "ErrServerResponseMismatch"
    /\ ret.h = nilPtr
    /\ At("verifyMAC") = {}
    /\ Done => /\ pc = "returned"
               /\ resp = nilPtr
               /\ qerr = "ErrServerResponseMismatch"

C2_OriginMismatch == (GotTime /\ OriginMismatch /\ HooksPassed) => C2_Rejected

\* C2 as stated: the same without the condition on the hooks.
C2_AsStated == (GotTime /\ OriginMismatch) => C2_Rejected

\* A reply with a valid MAC, accepted by an extension, and another decoy.
C2_Witness ==
    /\ pc = "returned"
    /\ OriginMismatch
    /\ HooksPassed
    /\ opt.Extensions > 0
    /\ opt.Auth = "key"
    /\ reply.mac = "valid"
    /\ resp = nilPtr
    /\ qerr = "ErrServerResponseMismatch"

\* C3 as stated: whatever error a ProcessQuery or ProcessResponse hook
\* returns, QueryWithOptions returns no Response and exactly that error.
C3_AsStated ==
    \A k \in At("ProcessQuery") \cup At("ProcessResponse") :
        (Done /\ events[k].err # nil) =>
            /\ pc = "returned"
            /\ resp = nilPtr
            /\ qerr = events[k].err

\* C4: with a key configured, a reply that differs in one byte of its
\* header or of its MAC from a well-formed reply with a valid MAC, that
\* still passes the four structural checks and that every ProcessResponse
\* hook accepted, is returned as a Response computed from the header
\* received and carrying ErrAuthFailed, which Validate returns.
Tampered ==
    /\ Decoded
    /\ opt.Auth = "key"
    /\ reply.mac = "mismatch"
    /\ LET good == GoodHeader(xmitHdr.TransmitTime)
       IN  \/ reply.hdr = good
           \/ \E fv \in OneByteAlternatives(xmitHdr.TransmitTime) :
                reply.hdr = [good EXCEPT ![fv[1]] = fv[2]]

C4_AuthRecorded ==
    /\ pc \in {"returned", "validated"}
    /\ qerr = nil
    /\ resp # nilPtr
    /\ resp[1].authErr = "ErrAuthFailed"
    /\ resp[1] = generateResponse(CorrectedHeader, toNtpTime(recvTime),
                                  "ErrAuthFailed")
    /\ (pc = "validated" => verr = "ErrAuthFailed")

C4_Tampering ==
    (Done /\ Tampered /\ HooksPassed
          /\ StructuralCheck(reply.hdr, xmitHdr) = nil) => C4_AuthRecorded

\* C4 as stated: any one changed byte.
C4_AsStated == (Done /\ Tampered) => C4_AuthRecorded

\* The leap bits of the first byte changed on the way.
C4_Witness ==
    /\ pc = "validated"
    /\ Tampered
    /\ getLeap(reply.hdr) = LeapNotInSync
    /\ resp # nilPtr
    /\ resp[1].Leap = LeapNotInSync
    /\ verr = "ErrAuthFailed"

\* C5: the ProcessQuery hooks run in the order 1..n between binary.Write
\* and the Write of the datagram; the ProcessResponse hooks run in the order
\* n..1 between binary.Read and the structural checks; no ProcessResponse
\* hook runs before all n ProcessQuery hooks have run.
InOrder(op, first, step) ==
    \A k \in At(op) :
        events[k].i = first + step * Cardinality({ j \in At(op) : j < k })

Between(op, before, after) ==
    \A k \in At(op) :
        /\ \E j \in At(before) : j < k /\ events[j].err = nil
        /\ \A j \in At(after) : k < j

C5_HookOrder ==
    /\ InOrder("ProcessQuery", 1, 1)
    /\ InOrder("ProcessResponse", opt.Extensions, -1)
    /\ Between("ProcessQuery", "binary.Write", "Write")
    /\ Between("ProcessResponse", "binary.Read", "check")
    /\ \A k \in At("ProcessResponse") :
         { events[j].i : j \in { q \in At("ProcessQuery") : q < k } }
             = 1..opt.Extensions
    /\ At("Write") # {} =>
         Cardinality(At("ProcessQuery")) = opt.Extensions
    /\ At("check") # {} =>
         Cardinality(At("ProcessResponse")) = opt.Extensions

\* Two extensions, all four hooks called, the checks evaluated.
C5_Witness ==
    /\ pc = "returned"
    /\ opt.Extensions = MaxExt
    /\ Cardinality(At("ProcessQuery")) = MaxExt
    /\ Cardinality(At("ProcessResponse")) = MaxExt
    /\ At("check") # {}

\* C6: a decoded reply that every ProcessResponse hook accepted is rejected
\* with the error of the first failing check in the order mode, transmit
\* timestamp, origin, receive <= transmit; the rejection returns no Response
\* and no MAC verification has run; a reply that passes the four checks is
\* not rejected with one of the four errors.
FirstFailing ==
    IF getMode(reply.hdr) # server THEN "ErrInvalidMode"
    ELSE IF reply.hdr.TransmitTime = Zero64 THEN "ErrInvalidTransmitTime"
    ELSE IF reply.hdr.OriginTime # xmitHdr.TransmitTime
         THEN "ErrServerResponseMismatch"
    ELSE IF ~Le64(reply.hdr.ReceiveTime, reply.hdr.TransmitTime)
         THEN "ErrServerTickedBackwards"
    ELSE nil

C6_Outcome ==
    IF FirstFailing # nil
    THEN /\ ret.err = FirstFailing
         /\ ret.h = nilPtr
         /\ At("verifyMAC") = {}
         /\ Done => pc = "returned" /\ resp = nilPtr /\ qerr = FirstFailing
    ELSE /\ ret.err \notin StructuralErrors
         /\ Done => qerr \notin StructuralErrors

C6_CheckOrder == (GotTime /\ Decoded /\ HooksPassed) => C6_Outcome

\* C6 as stated: the same without the condition on the hooks.
C6_AsStated == (GotTime /\ Decoded) => C6_Outcome

\* A reply accepted by an extension, in client mode and with a zero transmit
\* timestamp: the mode is reported.
C6_Witness ==
    /\ pc = "returned"
    /\ Decoded
    /\ HooksPassed
    /\ opt.Extensions > 0
    /\ getMode(reply.hdr) # server
    /\ reply.hdr.TransmitTime = Zero64
    /\ qerr = "ErrInvalidMode"
    /\ resp = nilPtr

\* The calls of the exchange that return an error value.
FallibleOps ==
    {"Dial", "SetTTL", "SetDeadline", "rand.Read", "ProcessQuery",
     "decodeAuthKey", "Write", "Read", "binary.Read", "ProcessResponse",
     "check"}

\* The positions of the calls that failed.
Failures == { k \in 1..Len(events) :
                events[k].op \in FallibleOps /\ events[k].err # nil }

TransportOps == {"Dial", "Write", "Read"}

\* C11 as stated: at most one dial, one write and one read, in that order;
\* after a failure at any step no dial, write or read follows; a deadline
\* has been set on the transport before the write and before the read.
C11_AsStated ==
    /\ \A op \in TransportOps : Cardinality(At(op)) <= 1
    /\ \A w \in At("Write") : \E d \in At("Dial") : d < w
    /\ \A r \in At("Read") : \E w \in At("Write") : w < r
    /\ \A f \in Failures : \A k \in 1..Len(events) :
         (f < k) => events[k].op \notin TransportOps
    /\ \A k \in At("Write") \cup At("Read") :
         \E d \in At("SetDeadline") : d < k /\ events[d].err = nil

\* C12 as stated: when rand.Read fails the exchange returns that error and
\* no Response, and by then no transport has been acquired through the
\* dialer or configured, and nothing has been written or read.
C12_AsStated ==
    \A k \in At("rand.Read") :
        (GotTime /\ events[k].err # nil) =>
            /\ ret.err = events[k].err
            /\ ret.h = nilPtr
            /\ Done => pc = "returned" /\ resp = nilPtr /\ qerr = events[k].err
            /\ \A j \in 1..Len(events) :
                 events[j].op \notin
                     {"Dial", "SetTTL", "SetDeadline", "Write", "Read"}

\* C13: Time returns the local time shifted by the ClockOffset of the
\* Response, with a nil error, only when the query returned no error and
\* Validate on its Response returned nil; when the query failed or Validate
\* returned an error (among them a stored authentication failure and a kiss
\* of death) Time returns that error and the local time unshifted.
C13_Time ==
    (pc = "timeReturned") =>
        /\ (timeRet.err = nil) =>
             /\ qerr = nil
             /\ resp # nilPtr
             /\ Validate(resp[1]) = nil
             /\ timeRet.t = Add64(localNow, resp[1].ClockOffset)
        /\ (qerr # nil) => timeRet = [t |-> localNow, err |-> qerr]
        /\ (qerr = nil /\ Validate(resp[1]) # nil) =>
             timeRet = [t |-> localNow, err |-> Validate(resp[1])]
        /\ (qerr = nil /\ resp[1].authErr # nil) =>
             timeRet = [t |-> localNow, err |-> resp[1].authErr]
        /\ (qerr = nil /\ resp[1].authErr = nil /\ resp[1].Stratum = 0) =>
             timeRet = [t |-> localNow, err |-> "ErrKissOfDeath"]

\* A kiss of death with a nonzero clock offset: Time returns the error and
\* the local time.
C13_Witness ==
    /\ pc = "timeReturned"
    /\ qerr = nil
    /\ resp # nilPtr
    /\ resp[1].KissCode # <<>>
    /\ resp[1].ClockOffset # Zero64
    /\ timeRet = [t |-> localNow, err |-> "ErrKissOfDeath"]

\* C14: once the dial has succeeded, every return of getTime with the
\* default dialer has closed the transport, exactly once and as the last
\* call; with a Dialer or a Dial callback of the caller the transport is
\* never closed; no call on the transport follows its Close, and the
\* transport is not closed before getTime returns.
Dialed == \E k \in At("Dial") : events[k].err = nil

\* getTime has returned, to QueryWithOptions or through it to Time.
Exited == GotTime \/ pc = "timeReturned"

C14_Close ==
    /\ (Exited /\ Dialed /\ opt.Dialer = "default") =>
         /\ conn = "closed"
         /\ At("Close") = {Len(events)}
    /\ (opt.Dialer # "default" \/ ~Dialed) =>
         /\ At("Close") = {}
         /\ conn # "closed"
    /\ ~Exited => At("Close") = {} /\ conn # "closed"
    /\ \A c \in At("Close") : \A k \in 1..Len(events) :
         (c < k) => events[k].op \notin
                      {"SetTTL", "SetDeadline", "Write", "Read", "Close"}

\* A structural rejection with the default dialer: the transport is closed.
C14_Witness ==
    /\ pc = "returned"
    /\ opt.Dialer = "default"
    /\ qerr = "ErrServerTickedBackwards"
    /\ conn = "closed"
    /\ events[Len(events)].op = "Close"

=============================================================================
